---- MODULE Spec2Model ----
(***************************************************************************)
(* simple-kv: a line-oriented key/value server (src/src/server.rs) and its *)
(* benchmark client (src/src/bench.rs), both written as mio event-loop     *)
(* handlers.  Bytes are modelled as one-character strings; a byte buffer   *)
(* (Vec<u8>) is a sequence of bytes.                                       *)
(***************************************************************************)
EXTENDS Naturals, Integers, Sequences, FiniteSets, TLC

\* ------------------------------------------------------------------ bounds

\* Request lines the peer of a single connection sends in one run, when the
\* lines reach the server whole.
MaxLines == 3

\* Request lines the peers of several connections send in one run, over all
\* connections.
MaxPairLines == 2

\* Request lines the peers send in one run when the bytes reach the server
\* in arbitrary pieces.
MaxSplitLines == 1

\* Request lines the peer sends in one run of malformed lines.
MaxBadLines == 1

\* Tokens of a line handed to the decoder.
MaxTokens == 4

\* --count: the entries to write before the benchmark exits.
Count == 2

\* --val-size: the bytes of a value.
ValSize == 1

\* The last value precise_time_ns returns in one run.
MaxClock == 5

\* The histograms handed to the reporter in one run.
MaxReports == 1

\* How far into a message a write that takes only part of it gets.
PartialCut == 10

\* ------------------------------------------------------------------- bytes

NL == "\n"
SP == " "
\* A byte that is not valid UTF-8 wherever it stands (0xFF).
BAD == "0xFF"

B_GET == <<"G", "E", "T">>
B_PUT == <<"P", "U", "T">>
B_NONE == <<"N", "O", "N", "E">>
B_OK == <<"O", "K">>
B_ERR == <<"E", "R", "R">>

\* char::is_whitespace on the bytes of the model's alphabet.
IsWhitespace(b) == b \in {SP, NL, "\t"}

\* str::from_utf8(bytes).is_ok()
from_utf8_ok(bytes) == \A i \in 1..Len(bytes) : bytes[i] # BAD

\* bytes[lo..hi] with Rust's 0-based, half-open indices.
Slice(bytes, lo, hi) == SubSeq(bytes, lo + 1, hi)

\* Length of the longest whitespace-free prefix of s.
RECURSIVE WordLen(_)
WordLen(s) ==
    IF s = <<>> \/ IsWhitespace(Head(s)) THEN 0 ELSE 1 + WordLen(Tail(s))

\* line.split_whitespace().collect()
RECURSIVE split_whitespace(_)
split_whitespace(s) ==
    IF s = <<>> THEN <<>>
    ELSE IF IsWhitespace(Head(s)) THEN split_whitespace(Tail(s))
    ELSE LET n == WordLen(s)
         IN  <<SubSeq(s, 1, n)>> \o split_whitespace(SubSeq(s, n + 1, Len(s)))

\* ----------------------------------------------------------------- Message

MsgGet(key) == [type |-> "Get", key |-> key]
MsgPut(key, value) == [type |-> "Put", key |-> key, value |-> value]
MsgError == [type |-> "Error"]

\* Message::from_bytes accepting any line that starts with the keyword.
from_bytes_no_count(bytes) ==
    IF ~from_utf8_ok(bytes) THEN MsgError
    ELSE LET words == split_whitespace(bytes)
             len == Len(words)
         IN  IF len < 2 THEN MsgError
             ELSE IF words[1] = B_GET THEN MsgGet(words[2])
             ELSE IF words[1] = B_PUT
                  THEN MsgPut(words[2], IF len >= 3 THEN words[3] ELSE <<>>)
             ELSE MsgError

\* Message::from_bytes
from_bytes(bytes) ==
    IF ~from_utf8_ok(bytes) THEN MsgError
    ELSE LET words == split_whitespace(bytes)
             len == Len(words)
         IN  IF len < 2 THEN MsgError
             ELSE IF words[1] = B_GET
                  THEN IF len # 2 THEN MsgError ELSE MsgGet(words[2])
             ELSE IF words[1] = B_PUT
                  THEN IF len # 3 THEN MsgError
                       ELSE MsgPut(words[2], words[3])
             ELSE MsgError

\* -------------------------------------------------------------- Connection

\* Connection::new (the socket is the environment's pending/sent below).
Connection_new ==
    [read_buf |-> <<>>, write_buf |-> <<>>,
     events |-> {"readable", "hup", "error"}]

\* The loop of Connection::readable over the newly read bytes: hi counts
\* from 0 over read_buf[read_from..], lo..hi index read_buf itself.
RECURSIVE ScanLines(_, _, _, _, _)
ScanLines(read_buf, read_from, hi, lo, messages) ==
    IF hi >= Len(read_buf) - read_from
    THEN [lo |-> lo, messages |-> messages]
    ELSE IF read_buf[read_from + hi + 1] = NL
         THEN ScanLines(read_buf, read_from, hi + 1, hi + 1,
                        Append(messages, from_bytes(Slice(read_buf, lo, hi))))
         ELSE ScanLines(read_buf, read_from, hi + 1, lo, messages)

\* Connection::readable.  data are the bytes read_to_end appends before it
\* ends with res: "wouldblock", "eof" (Ok(n), n = Len(data)) or "err".
Connection_readable(conn, data, res) ==
    LET read_from == Len(conn.read_buf)
        read_buf == conn.read_buf \o data
    IN  IF res = "err"
        THEN [ok |-> FALSE, conn |-> [conn EXCEPT !.read_buf = read_buf],
              messages |-> <<>>]
        ELSE IF res = "eof" /\ Len(data) = 0
        THEN [ok |-> TRUE, conn |-> conn, messages |-> <<>>]
        ELSE LET s == ScanLines(read_buf, read_from, 0, 0, <<>>)
             IN  [ok |-> TRUE,
                  conn |-> [conn EXCEPT
                              !.read_buf = Slice(read_buf, s.lo, Len(read_buf))],
                  messages |-> s.messages]

\* Connection::send that forgets the line terminator.
Connection_send_no_newline(conn, message) ==
    [conn EXCEPT !.events = @ \cup {"writable"},
                 !.write_buf = @ \o message]

\* Connection::send that does not ask for writable events.
Connection_send_no_interest(conn, message) ==
    [conn EXCEPT !.write_buf = (@ \o message) \o <<NL>>]

\* Connection::send
Connection_send(conn, message) ==
    [conn EXCEPT !.events = @ \cup {"writable"},
                 !.write_buf = (@ \o message) \o <<NL>>]

\* Connection::writable that clears the buffer when the socket would block.
Connection_writable_clear(conn, n, res) ==
    IF n = Len(conn.write_buf) \/ res = "wouldblock"
    THEN [ok |-> TRUE,
          conn |-> [conn EXCEPT !.events = @ \ {"writable"},
                                !.write_buf = <<>>]]
    ELSE [ok |-> FALSE, conn |-> conn]

\* Connection::writable that leaves the writable interest in place after a
\* full flush.
Connection_writable_keep_interest(conn, n, res) ==
    IF n = Len(conn.write_buf)
    THEN [ok |-> TRUE, conn |-> [conn EXCEPT !.write_buf = <<>>]]
    ELSE IF res = "wouldblock"
    THEN [ok |-> TRUE,
          conn |-> [conn EXCEPT
                      !.write_buf = Slice(@, n, Len(conn.write_buf))]]
    ELSE [ok |-> FALSE, conn |-> conn]

\* Connection::writable that calls write before it looks at the length of
\* the buffer: a write of nothing returns Ok(0), which is WriteZero.
Connection_writable_write_first(conn, n, res) ==
    IF n = 0 /\ res # "wouldblock"
    THEN [ok |-> FALSE, conn |-> conn]
    ELSE IF n = Len(conn.write_buf)
    THEN [ok |-> TRUE,
          conn |-> [conn EXCEPT !.events = @ \ {"writable"},
                                !.write_buf = <<>>]]
    ELSE IF res = "wouldblock"
    THEN [ok |-> TRUE,
          conn |-> [conn EXCEPT
                      !.write_buf = Slice(@, n, Len(conn.write_buf))]]
    ELSE [ok |-> FALSE, conn |-> conn]

\* Connection::writable.  n is the number of bytes the socket accepts over
\* the successive write calls (idx when the loop ends); res is what ends the
\* loop when n < Len(write_buf): "wouldblock", "zero" (Ok(0)) or "err".
Connection_writable(conn, n, res) ==
    IF n = Len(conn.write_buf)
    THEN [ok |-> TRUE,
          conn |-> [conn EXCEPT !.events = @ \ {"writable"},
                                !.write_buf = <<>>]]
    ELSE IF res = "wouldblock"
    THEN [ok |-> TRUE,
          conn |-> [conn EXCEPT
                      !.write_buf = Slice(@, n, Len(conn.write_buf))]]
    ELSE [ok |-> FALSE, conn |-> conn]

\* ------------------------------------------------------------------ Server

\* HashMap::get(&key) ... unwrap_or("NONE")
db_get(d, key) == IF key \in DOMAIN d THEN d[key] ELSE B_NONE

\* HashMap::insert that keeps the value of a key already present.
db_insert_keep(d, key, value) ==
    [k \in DOMAIN d \cup {key} |-> IF k \in DOMAIN d THEN d[k] ELSE value]

\* HashMap::insert
db_insert(d, key, value) ==
    [k \in DOMAIN d \cup {key} |-> IF k = key THEN value ELSE d[k]]

\* The Message::Error arm answering nothing.
on_error_silent(conn) == conn

\* The Message::Error arm of Server::connection_readable.
on_error(conn) == Connection_send(conn, B_ERR)

\* The loop of Server::connection_readable over the decoded messages.  trace
\* collects, per message, the message and the text handed to send.
RECURSIVE HandleMessages(_, _, _, _)
HandleMessages(conn, d, messages, trace) ==
    IF messages = <<>> THEN [conn |-> conn, db |-> d, trace |-> trace]
    ELSE LET m == Head(messages)
         IN  IF m.type = "Get"
             THEN LET val == db_get(d, m.key)
                  IN  HandleMessages(Connection_send(conn, val), d,
                                     Tail(messages),
                                     Append(trace, [msg |-> m, resp |-> val]))
             ELSE IF m.type = "Put"
             THEN HandleMessages(Connection_send(conn, B_OK),
                                 db_insert(d, m.key, m.value), Tail(messages),
                                 Append(trace, [msg |-> m, resp |-> B_OK]))
             ELSE HandleMessages(on_error(conn), d, Tail(messages),
                                 Append(trace, [msg |-> m, resp |-> B_ERR]))

\* Server::connection_readable
Server_connection_readable(conn, d, data, res) ==
    LET r == Connection_readable(conn, data, res)
    IN  IF ~r.ok
        THEN [ok |-> FALSE, conn |-> r.conn, db |-> d, trace |-> <<>>]
        ELSE LET h == HandleMessages(r.conn, d, r.messages, <<>>)
             IN  [ok |-> TRUE, conn |-> h.conn, db |-> h.db, trace |-> h.trace]

\* The read of Handler::ready (if events.is_readable()).
ready_read(conn, d, events, data, rres) ==
    IF "readable" \in events
    THEN Server_connection_readable(conn, d, data, rres)
    ELSE [ok |-> TRUE, conn |-> conn, db |-> d, trace |-> <<>>]

\* Handler::ready for a connection token that tests for hangup after the
\* read, so as to take the last bytes of a peer that hung up.
ready_from_hup_after_read(conn, d, events, r, n, wres, regok) ==
    LET gone(c, dd, tr, q, acc, why) ==
            [alive |-> FALSE, conn |-> c, db |-> dd, trace |-> tr,
             queued |-> q, accepted |-> acc, fault |-> why]
    IN  IF "error" \in events THEN gone(conn, d, <<>>, <<>>, <<>>, "error")
        ELSE
        LET q == Slice(r.conn.write_buf, Len(conn.write_buf),
                       Len(r.conn.write_buf))
        IN  IF ~r.ok THEN gone(r.conn, r.db, r.trace, q, <<>>, "read")
            ELSE IF "hup" \in events
            THEN gone(r.conn, r.db, r.trace, q, <<>>, "hup")
            ELSE
            LET w == IF "writable" \in events
                     THEN Connection_writable(r.conn, n, wres)
                     ELSE [ok |-> TRUE, conn |-> r.conn]
                acc == IF "writable" \in events
                       THEN SubSeq(r.conn.write_buf, 1, n) ELSE <<>>
            IN  IF ~w.ok THEN gone(w.conn, r.db, r.trace, q, acc, "write")
                ELSE IF ~regok
                THEN gone(w.conn, r.db, r.trace, q, acc, "reregister")
                ELSE [alive |-> TRUE, conn |-> w.conn, db |-> r.db,
                      trace |-> r.trace, queued |-> q, accepted |-> acc,
                      fault |-> "none"]

\* Handler::ready for a connection token, given r, the result of its read:
\* what one event does to the connection and the store.  alive = FALSE:
\* connections.remove(token), and fault names the condition that removed
\* it.  regok is the result of event_loop.reregister.  queued (the bytes
\* the sends appended) and accepted (the bytes the socket took) are kept for
\* the history variables.
ready_from(conn, d, events, r, n, wres, regok) ==
    LET gone(c, dd, tr, q, acc, why) ==
            [alive |-> FALSE, conn |-> c, db |-> dd, trace |-> tr,
             queued |-> q, accepted |-> acc, fault |-> why]
    IN  IF "error" \in events THEN gone(conn, d, <<>>, <<>>, <<>>, "error")
        ELSE IF "hup" \in events THEN gone(conn, d, <<>>, <<>>, <<>>, "hup")
        ELSE
        LET q == Slice(r.conn.write_buf, Len(conn.write_buf),
                       Len(r.conn.write_buf))
        IN  IF ~r.ok THEN gone(r.conn, r.db, r.trace, q, <<>>, "read")
            ELSE
            LET w == IF "writable" \in events
                     THEN Connection_writable(r.conn, n, wres)
                     ELSE [ok |-> TRUE, conn |-> r.conn]
                acc == IF "writable" \in events
                       THEN SubSeq(r.conn.write_buf, 1, n) ELSE <<>>
            IN  IF ~w.ok THEN gone(w.conn, r.db, r.trace, q, acc, "write")
                ELSE IF ~regok
                THEN gone(w.conn, r.db, r.trace, q, acc, "reregister")
                ELSE [alive |-> TRUE, conn |-> w.conn, db |-> r.db,
                      trace |-> r.trace, queued |-> q, accepted |-> acc,
                      fault |-> "none"]

\* Handler::ready for a connection token.
Server_ready(conn, d, events, data, rres, n, wres, regok) ==
    ready_from(conn, d, events, ready_read(conn, d, events, data, rres),
               n, wres, regok)

\* ------------------------------------------------------------ the benchmark

HexDigit(d) ==
    <<"0", "1", "2", "3", "4", "5", "6", "7",
      "8", "9", "A", "B", "C", "D", "E", "F">>[d + 1]

RECURSIVE HexDigits(_)
HexDigits(n) ==
    IF n < 16 THEN <<HexDigit(n)>>
    ELSE Append(HexDigits(n \div 16), HexDigit(n % 16))

\* write!(.., "{:016X}", n)
Hex16(n) ==
    LET d == HexDigits(n)
    IN  [i \in 1..(IF Len(d) < 16 THEN 16 - Len(d) ELSE 0) |-> "0"] \o d

\* One pass of the fill loop of Bench::writable: the entry n.  "r" stands
\* for an ASCII character of the random generator.
PutLine(n) ==
    ((((B_PUT \o <<SP>>) \o Hex16(n)) \o <<SP>>) \o [i \in 1..ValSize |-> "r"])
        \o <<NL>>

\* let message_size = 22 + val_size
message_size == 22 + ValSize

\* Connection::new of the benchmark.
BenchConnection_new ==
    [read_buf |-> <<>>, write_buf |-> <<>>, bytes_sent |-> 0,
     send_times |-> <<>>]

\* create_hist: the values incremented, in the order of the increments.
create_hist == <<>>

\* The fill loop of Bench::writable.
RECURSIVE FillBatch(_, _, _)
FillBatch(write_buf, entries_written, batch_size) ==
    IF Len(write_buf) < message_size * batch_size
    THEN FillBatch(write_buf \o PutLine(entries_written), entries_written + 1,
                   batch_size)
    ELSE [write_buf |-> write_buf, entries_written |-> entries_written]

\* Bench::writable.  idx is the number of bytes the socket accepts over the
\* write calls; wres is what ends the loop when idx < write_buf.len():
\* "wouldblock", "zero" (Ok(0)) or "err"; send_time is what precise_time_ns
\* returns after the loop.
Bench_writable(conn, entries_written, batch_size, idx, wres, send_time) ==
    LET f == FillBatch(conn.write_buf, entries_written, batch_size)
    IN  IF idx < Len(f.write_buf) /\ wres # "wouldblock"
        THEN [ok |-> FALSE, conn |-> [conn EXCEPT !.write_buf = f.write_buf],
              entries_written |-> f.entries_written]
        ELSE LET messages_sent ==
                     ((conn.bytes_sent + idx) \div message_size)
                       - (conn.bytes_sent \div message_size)
             IN  [ok |-> TRUE,
                  conn |-> [conn EXCEPT
                              !.send_times =
                                 @ \o [i \in 1..messages_sent |-> send_time],
                              !.write_buf =
                                 Slice(f.write_buf, idx, Len(f.write_buf))],
                  entries_written |-> f.entries_written]

\* read_buf.chunks(3).all(|response| response == b"OK\n")
ChunksAllOK(read_buf) ==
    /\ Len(read_buf) % 3 = 0
    /\ \A i \in 1..Len(read_buf) :
           read_buf[i] = (B_OK \o <<NL>>)[((i - 1) % 3) + 1]

\* Bench::readable.  data are the bytes read_to_end appends before it ends
\* with rres ("wouldblock" or "err"); recv_time is what precise_time_ns
\* returned; checks is whether the build checks arithmetic overflow.  When
\* send_times.len() - responses goes below zero the build with checks
\* panics; the build without wraps to a length beyond that of the queue, and
\* truncate leaves the queue as it is.
Bench_readable(conn, h, data, rres, recv_time, checks) ==
    LET read_buf == conn.read_buf \o data
    IN  IF rres = "err"
        THEN [outcome |-> "panic_read", conn |-> conn, hist |-> h]
        ELSE IF ~ChunksAllOK(read_buf)
        THEN [outcome |-> "panic_assert",
              conn |-> [conn EXCEPT !.read_buf = read_buf], hist |-> h]
        ELSE
        LET responses == Len(read_buf) \div 3
            n == Len(conn.send_times)
            taken == IF responses < n THEN responses ELSE n
            h2 == h \o [i \in 1..taken |->
                          recv_time - conn.send_times[n - i + 1]]
            c2 == [conn EXCEPT
                     !.read_buf = Slice(read_buf, responses * 3, Len(read_buf))]
        IN  IF n < responses
            THEN IF checks
                 THEN [outcome |-> "panic_overflow", conn |-> c2, hist |-> h2]
                 ELSE [outcome |-> "ok", conn |-> c2, hist |-> h2]
            ELSE [outcome |-> "ok",
                  conn |-> [c2 EXCEPT
                              !.send_times = SubSeq(@, 1, n - responses)],
                  hist |-> h2]

\* Handler::ready of the benchmark: what one event does.  now is the last
\* value precise_time_ns returned; it returns the next value at each call.
\* status = "exited": exit(0); a status that starts with panic: the process
\* aborts.  read: whether the event took data from the socket; accepted:
\* the bytes the socket accepted.
Bench_ready(conn, entries_written, h, params, events, data, rres, idx, wres, regok, now) ==
    LET stop(st, c, ew, hh, t, rd, acc) ==
            [status |-> st, conn |-> c, entries_written |-> ew, hist |-> hh,
             clock |-> t, read |-> rd, accepted |-> acc]
    IN  IF Count > 0 /\ entries_written > Count
        THEN stop("exited", conn, entries_written, h, now, FALSE, <<>>)
        ELSE IF "error" \in events
        THEN stop("panic_error", conn, entries_written, h, now, FALSE, <<>>)
        ELSE IF "hup" \in events
        THEN stop("panic_hup", conn, entries_written, h, now, FALSE, <<>>)
        ELSE
        LET rd == "readable" \in events
            r == IF rd
                 THEN Bench_readable(conn, h, data, rres, now + 1,
                                     params.overflow_checks)
                 ELSE [outcome |-> "ok", conn |-> conn, hist |-> h]
            t1 == IF rd THEN now + 1 ELSE now
        IN  IF r.outcome # "ok"
            THEN stop(r.outcome, r.conn, entries_written, r.hist, t1,
                      rres # "err", <<>>)
            ELSE
            LET wr == "writable" \in events
                w == IF wr
                     THEN Bench_writable(r.conn, entries_written,
                                         params.batch_size, idx, wres, t1 + 1)
                     ELSE [ok |-> TRUE, conn |-> r.conn,
                           entries_written |-> entries_written]
                t2 == IF wr /\ w.ok THEN t1 + 1 ELSE t1
                acc == IF wr
                       THEN SubSeq(FillBatch(r.conn.write_buf, entries_written,
                                             params.batch_size).write_buf,
                                   1, idx)
                       ELSE <<>>
            IN  IF ~w.ok
                THEN stop("panic_write", w.conn, w.entries_written, r.hist,
                          t2, rd, acc)
                ELSE IF ~regok
                THEN stop("panic_reregister", w.conn, w.entries_written,
                          r.hist, t2, rd, acc)
                ELSE stop("running", w.conn, w.entries_written, r.hist, t2,
                          rd, acc)

\* ------------------------------------------------------ decoding one line

TokenAlphabet == {B_GET, B_PUT, <<"a">>, <<"g", "e", "t">>}

\* The whitespace before, between and after the tokens of a line.
Gaps ==
    { [lead |-> <<>>, sep |-> <<SP>>, trail |-> <<>>],
      [lead |-> <<SP>>, sep |-> <<SP, SP>>, trail |-> <<SP>>],
      [lead |-> <<>>, sep |-> <<"\t">>, trail |-> <<"\t", SP>>] }

RECURSIVE JoinWords(_, _)
JoinWords(words, sep) ==
    IF words = <<>> THEN <<>>
    ELSE IF Len(words) = 1 THEN words[1]
    ELSE (words[1] \o sep) \o JoinWords(Tail(words), sep)

\* The bytes of the line (without its terminator).
LineOf(words, gaps) == (gaps.lead \o JoinWords(words, gaps.sep)) \o gaps.trail

\* No message yet.
MsgPending == [type |-> "Pending"]

\* -------------------------------------------------------------------- state

VARIABLES
    connections,  \* Server.connections: token -> Connection, the live slots
    db,           \* Server.db
    registered,   \* token -> the interest set the event loop is armed with
    pending,      \* token -> bytes the peer has sent and the server not read
    closed,       \* token -> the peer has shut down its sending side
    nlines,       \* request lines the peers have sent so far
    scenario,     \* what the peers and the sockets do in this run
    recvd,        \* token -> every byte read from the socket, in order
    frames,       \* token -> every message decoded, in order
    queued,       \* token -> every byte the sends appended, in order
    sent,         \* token -> every byte the socket accepted, in order
    last_put      \* key -> the most recently handled Put message for the key

server_vars == <<connections, db, registered, pending, closed, nlines,
                 scenario, recvd, frames, queued, sent, last_put>>

VARIABLES
    line_words,   \* the tokens of the line handed to Message::from_bytes
    line_gaps,    \* the whitespace around and between the tokens
    message       \* what from_bytes returned for the line, once it has

decode_vars == <<line_words, line_gaps, message>>

VARIABLES
    bench_connection,  \* the Connection of the benchmark's token
    entries_written,   \* Bench.entries_written
    hist,              \* Bench.hist
    bench_status,      \* "running", "exited", or the panic that aborted it
    clock,             \* the last value precise_time_ns returned
    bench_params,      \* batch_size, whether the build checks overflow, and
                       \* the number of report timeouts of the run
    wire,              \* every byte the benchmark's socket accepted, in order
    delivered,         \* response bytes that have reached the benchmark's socket
    received,          \* response bytes the benchmark has read
    reported,          \* the histograms sent to the reporter, in order
    channel,           \* the histograms in the mpsc channel, oldest first
    printed,           \* the reporter's iterations: histogram taken, line
    reporter_up,       \* the reporter thread and its Receiver still exist
    timer              \* the report timeout is armed

bench_vars == <<bench_connection, entries_written, hist, bench_status, clock,
                bench_params, wire, delivered, received, reported, channel,
                printed, reporter_up, timer>>

vars == <<server_vars, decode_vars, bench_vars>>

\* ------------------------------------------------------- the server's state

\* Connection tokens: Slab::new_starting_at(Token(1), SLAB_SIZE).
Tokens == scenario.slots

EmptyMap == [t \in {} |-> <<>>]

\* A removal that empties the table.
Drop_all(f, S) == [u \in {} |-> f[u]]

\* Slab::remove: f without the tokens of S.
Drop(f, S) == [u \in DOMAIN f \ S |-> f[u]]

Prefixes(s) == {SubSeq(s, 1, k) : k \in 0..Len(s)}

\* The prefixes of s that end with a line of s.
LinePrefixes(s) ==
    {SubSeq(s, 1, k) : k \in {j \in 0..Len(s) : j = 0 \/ s[j] = NL}}

\* The most recent Put per key after the messages of trace are handled.
RECURSIVE NotePuts(_, _)
NotePuts(lp, trace) ==
    IF trace = <<>> THEN lp
    ELSE LET m == Head(trace).msg
         IN  NotePuts(IF m.type = "Put"
                      THEN [k \in DOMAIN lp \cup {m.key} |->
                              IF k = m.key THEN m ELSE lp[k]]
                      ELSE lp,
                      Tail(trace))

\* --------------------------------------------------------------- the peers

Keys == {<<"a">>}
Values == {<<"x">>, <<"y">>}

\* The well-formed requests and their wire form (without the terminator).
Requests ==
    {MsgGet(k) : k \in Keys} \cup {MsgPut(k, v) : k \in Keys, v \in Values}

Encode(req) ==
    IF req.type = "Get" THEN (B_GET \o <<SP>>) \o req.key
    ELSE (((B_PUT \o <<SP>>) \o req.key) \o <<SP>>) \o req.value

\* Lines that fail the decode rules: no token, one token, an unknown first
\* token, GET with 3 tokens, PUT with 2 and with 4 tokens, bytes that are
\* not text.
BadLines ==
    { <<>>, B_GET, <<"a", SP, "x">>, B_GET \o <<SP, "a", SP, "x">>,
      B_PUT \o <<SP, "a">>, B_PUT \o <<SP, "a", SP, "x", SP, "y">>,
      B_GET \o <<SP, BAD>> }

\* The lines of the well-formed requests.
RequestLines == {Encode(r) : r \in Requests}

\* A GET, a PUT and the empty line.
MixedLines ==
    {Encode(MsgGet(<<"a">>)), Encode(MsgPut(<<"a">>, <<"x">>)), <<>>}

\* The runs explored.  slots: the slots of the connection table in use (a
\* single connection, or a pair; the program's SLAB_SIZE is 4096); lines:
\* the request lines the peers choose from; budget: the request lines sent;
\* read_cut: the bytes of the peer reach a read in any pieces ("byte") or
\* line by line ("line"); write_cut: the socket takes any number of bytes
\* of a write ("byte") or all or none of them ("all").
Scenarios ==
    { [slots |-> {1}, lines |-> MixedLines, budget |-> MaxSplitLines,
       read_cut |-> "byte", write_cut |-> "byte"],
      [slots |-> {1}, lines |-> MixedLines, budget |-> MaxLines,
       read_cut |-> "line", write_cut |-> "byte"],
      [slots |-> {1, 2}, lines |-> RequestLines, budget |-> MaxPairLines,
       read_cut |-> "line", write_cut |-> "all"],
      [slots |-> {1}, lines |-> BadLines, budget |-> MaxBadLines,
       read_cut |-> "line", write_cut |-> "all"] }

\* A peer writes one request line; it reaches the server in any pieces.
ClientSend(token, line) ==
    /\ token \in DOMAIN connections
    /\ line \in scenario.lines
    /\ ~closed[token]
    /\ nlines < scenario.budget
    /\ pending' = [pending EXCEPT ![token] = (@ \o line) \o <<NL>>]
    /\ nlines' = nlines + 1
    /\ UNCHANGED <<connections, db, registered, closed, scenario, recvd,
                   frames, queued, sent, last_put>>
    /\ UNCHANGED <<decode_vars, bench_vars>>

\* A peer shuts down its sending side.
ClientClose(token) ==
    /\ token \in DOMAIN connections
    /\ ~closed[token]
    /\ closed' = [closed EXCEPT ![token] = TRUE]
    /\ UNCHANGED <<connections, db, registered, pending, nlines, scenario,
                   recvd, frames, queued, sent, last_put>>
    /\ UNCHANGED <<decode_vars, bench_vars>>

\* ------------------------------------------------------------- the handlers

\* Handler::ready for LISTENER, Server::accept_connections: the pending
\* sockets go to the free slots new; registering those of failed fails and
\* they are removed again.  Sockets beyond the free slots are dropped.
Server_accept_connections(new, failed) ==
    /\ new # {}
    /\ new \subseteq Tokens \ DOMAIN connections
    /\ failed \subseteq new
    /\ LET kept == new \ failed
           add(f, v) == [u \in DOMAIN f \cup kept |->
                           IF u \in kept THEN v ELSE f[u]]
       IN  /\ connections' = add(connections, Connection_new)
           /\ registered' = add(registered, {"readable"})
           /\ pending' = add(pending, <<>>)
           /\ closed' = add(closed, FALSE)
           /\ recvd' = add(recvd, <<>>)
           /\ frames' = add(frames, <<>>)
           /\ queued' = add(queued, <<>>)
           /\ sent' = add(sent, <<>>)
    /\ UNCHANGED <<db, nlines, scenario, last_put>>
    /\ UNCHANGED <<decode_vars, bench_vars>>

\* Whether the event reaches the read of Handler::ready.
Reads(events) == "readable" \in events /\ events \cap {"error", "hup"} = {}

\* The events the event loop can deliver for a token: those it is armed
\* with, and error and hangup, which are always reported.
EventSets(token) == (SUBSET (registered[token] \cup {"error", "hup"})) \ {{}}

\* What read_to_end can return after data: end of stream only once the peer
\* has closed and all it sent is read, would-block only before that.
ReadResults(token, data) ==
    {"err"} \cup (IF closed[token] /\ data = pending[token]
                  THEN {"eof"} ELSE {"wouldblock"})

\* The read inputs of an event: the bytes that arrive, and how the read ends.
\* A failing read is taken with no byte before it: what it read is dropped
\* with the connection.
ReadInputs(token, events) ==
    IF Reads(events)
    THEN {<<data, rres>> \in (IF scenario.read_cut = "byte"
                               THEN Prefixes(pending[token])
                               ELSE LinePrefixes(pending[token]))
                               \X {"wouldblock", "eof", "err"} :
            /\ rres \in ReadResults(token, data)
            /\ rres = "err" => data = <<>>}
    ELSE {<<(<<>>), "wouldblock">>}

\* Whether the event reaches the write of Handler::ready.
Writes(events, rres) ==
    /\ "writable" \in events
    /\ events \cap {"error", "hup"} = {}
    /\ rres # "err"

\* The write inputs of an event that finds wb in the write buffer: how many
\* bytes the socket takes, and what ends the loop.  A failing write is taken
\* with no byte before it.
WriteInputs(events, rres, wb) ==
    IF Writes(events, rres)
    THEN {<<n, "wouldblock">> :
             n \in IF scenario.write_cut = "byte" THEN 0..Len(wb) - 1
                   ELSE {k \in {0} : Len(wb) > 0}}
           \cup {<<Len(wb), "done">>, <<0, "zero">>, <<0, "err">>}
    ELSE {<<0, "done">>}

\* The results of event_loop.reregister the event can see.  A failing
\* reregister is taken after a write that took nothing or everything: what
\* is left in the buffers is dropped with the connection.
RegInputs(events, rres, n, wres) ==
    IF events \cap {"error", "hup"} = {} /\ rres # "err"
         /\ (wres = "done" \/ (wres = "wouldblock" /\ n = 0))
    THEN BOOLEAN ELSE {TRUE}

\* The re-registration with the interest the socket was accepted with.
reregister_events_accept(conn) == {"readable"}

\* let events = self.connections[token].events: the interest set handed to
\* event_loop.reregister with PollOpt::edge() | PollOpt::oneshot().
reregister_events(conn) == conn.events

\* Handler::ready for a connection token, r being the result of its read.
ServerReadyFrom(token, events, data, r, n, wres, regok) ==
    LET out == ready_from(connections[token], db, events, r, n, wres, regok)
    IN  /\ db' = out.db
        /\ last_put' = NotePuts(last_put, out.trace)
        /\ IF out.alive
           THEN /\ connections' = [connections EXCEPT ![token] = out.conn]
                /\ registered' = [registered EXCEPT
                                    ![token] = reregister_events(out.conn)]
                /\ pending' = [pending EXCEPT
                                 ![token] = Slice(@, Len(data), Len(@))]
                /\ recvd' = [recvd EXCEPT ![token] = @ \o data]
                /\ frames' = [frames EXCEPT
                                ![token] = @ \o [i \in 1..Len(out.trace) |->
                                                  out.trace[i].msg]]
                /\ queued' = [queued EXCEPT ![token] = @ \o out.queued]
                /\ sent' = [sent EXCEPT ![token] = @ \o out.accepted]
                /\ closed' = closed
           ELSE /\ connections' = Drop(connections, {token})
                /\ registered' = Drop(registered, {token})
                /\ pending' = Drop(pending, {token})
                /\ recvd' = Drop(recvd, {token})
                /\ frames' = Drop(frames, {token})
                /\ queued' = Drop(queued, {token})
                /\ sent' = Drop(sent, {token})
                /\ closed' = Drop(closed, {token})
        /\ UNCHANGED <<nlines, scenario>>
        /\ UNCHANGED <<decode_vars, bench_vars>>

ServerStart ==
    /\ connections = EmptyMap
    /\ db = EmptyMap
    /\ registered = EmptyMap
    /\ pending = EmptyMap
    /\ closed = EmptyMap
    /\ nlines = 0
    /\ recvd = EmptyMap
    /\ frames = EmptyMap
    /\ queued = EmptyMap
    /\ sent = EmptyMap
    /\ last_put = EmptyMap

ServerInit == ServerStart /\ scenario \in Scenarios

ServerIdle ==
    /\ ServerStart
    /\ scenario = [slots |-> {1}, lines |-> BadLines, budget |-> MaxBadLines,
                   read_cut |-> "line", write_cut |-> "all"]

\* ------------------------------------------------ the decoder's start states

DecodeInit ==
    /\ line_words \in UNION {[1..n -> TokenAlphabet] : n \in 0..MaxTokens}
    /\ line_gaps \in Gaps
    /\ message = MsgPending

DecodeIdle ==
    /\ line_words = <<>>
    /\ line_gaps = [lead |-> <<>>, sep |-> <<SP>>, trail |-> <<>>]
    /\ message = MsgPending

\* Message::from_bytes on one line.
DecodeLine ==
    /\ message = MsgPending
    /\ message' = from_bytes(LineOf(line_words, line_gaps))
    /\ UNCHANGED <<line_words, line_gaps, server_vars, bench_vars>>

\* ------------------------------------------------- the benchmark's handlers

\* The i-th byte of the server's responses to the PUTs: OK, one per line.
ResponseByte(i) == (B_OK \o <<NL>>)[((i - 1) % 3) + 1]

\* The response bytes a read takes: all that have reached the socket.
BenchReadData ==
    [i \in 1..(delivered - received) |-> ResponseByte(received + i)]

\* --batch-size: the batch sizes explored.
BatchSizes == {1, 2}

\* The events the event loop can deliver: the socket is armed with
\* EventSet::all(); readable is reported once response bytes have arrived
\* that were not read yet.
BenchEventSets ==
    {e \in (SUBSET {"readable", "writable", "error", "hup"}) \ {{}} :
        "readable" \in e => delivered > received}

\* How the read of an event can end.
BenchReadResults(events) ==
    IF "readable" \in events /\ events \cap {"error", "hup"} = {}
    THEN {"wouldblock", "err"} ELSE {"wouldblock"}

\* The write inputs of an event: how many bytes of the filled buffer the
\* socket takes, and what ends the loop.  A write that stops short stops at
\* the start of a message or PartialCut bytes into one; a failing write is
\* taken with no byte before it.
BenchWriteInputs(events, rres) ==
    IF "writable" \in events /\ events \cap {"error", "hup"} = {}
         /\ rres # "err"
    THEN LET wb == FillBatch(bench_connection.write_buf, entries_written,
                             bench_params.batch_size).write_buf
         IN  {<<n, "wouldblock">> :
                 n \in {k \in 0..(Len(wb) - 1) :
                          (Len(wire) + k) % message_size \in {0, PartialCut}}}
               \cup {<<Len(wb), "done">>, <<0, "zero">>, <<0, "err">>}
    ELSE {<<0, "done">>}

\* The process has exited or aborted: its memory and its sockets are gone.
Gone ==
    /\ bench_connection' = BenchConnection_new
    /\ entries_written' = 0
    /\ hist' = create_hist
    /\ clock' = 0
    /\ wire' = <<>>
    /\ delivered' = 0
    /\ received' = 0
    /\ reported' = <<>>
    /\ channel' = <<>>
    /\ printed' = <<>>
    /\ reporter_up' = TRUE
    /\ timer' = TRUE

\* Handler::ready of the benchmark.
BenchReady(events, rres, idx, wres, regok) ==
    /\ bench_status = "running"
    /\ clock + 2 <= MaxClock
    /\ events \in BenchEventSets
    /\ rres \in BenchReadResults(events)
    /\ <<idx, wres>> \in BenchWriteInputs(events, rres)
    /\ LET out == Bench_ready(bench_connection, entries_written, hist,
                              bench_params, events, BenchReadData, rres, idx,
                              wres, regok, clock)
       IN  /\ bench_status' = out.status
           /\ IF out.status = "running"
              THEN /\ bench_connection' = out.conn
                   /\ entries_written' = out.entries_written
                   /\ hist' = out.hist
                   /\ clock' = out.clock
                   /\ wire' = wire \o out.accepted
                   /\ received' = IF out.read THEN delivered ELSE received
                   /\ UNCHANGED <<delivered, reported, channel, printed,
                                   reporter_up, timer>>
              ELSE Gone
    /\ UNCHANGED <<bench_params, server_vars, decode_vars>>

\* The hand-off as it would be with a copy of the histogram sent and the
\* histogram itself kept.
hist_replace_clone(h) == [sent |-> h, hist |-> h]

\* mem::replace(&mut self.hist, create_hist()): the histogram that is sent
\* and the one the benchmark goes on with.
hist_replace(h) == [sent |-> h, hist |-> create_hist]

\* Sender::send on a sync_channel(1): it waits while a histogram is in the
\* channel.
send_ready_bounded(ch) == Len(ch) < 1

\* Sender::send on the channel of mpsc::channel(): it never waits, whatever
\* the channel holds.
send_ready(ch) == TRUE

\* Sender::send: the value goes to the end of the channel.
channel_send(ch, h) == Append(ch, h)

\* Histogram::percentile(p).unwrap_or(0) over the values incremented: the
\* least value with p hundredths of the values at or below it.
percentile(h, p) ==
    IF h = <<>> THEN 0
    ELSE LET below(v) == Cardinality({i \in 1..Len(h) : h[i] <= v})
             ok == {h[i] : i \in {j \in 1..Len(h) :
                                    below(h[j]) * 100 >= p * Len(h)}}
         IN  CHOOSE v \in ok : \A w \in ok : v <= w

\* The line the reporter prints for a histogram, but for the elapsed time.
report_line(h) ==
    [count |-> Len(h), p50 |-> percentile(h, 50), p90 |-> percentile(h, 90),
     p99 |-> percentile(h, 99)]

\* Handler::timeout of the benchmark: the histogram goes to the reporter
\* and the timeout is armed again.  The send fails, and unwrap aborts the
\* process, when the Receiver is gone.
Bench_timeout ==
    /\ bench_status = "running"
    /\ timer
    /\ Len(reported) < bench_params.reports
    /\ send_ready(channel)
    /\ IF reporter_up
       THEN /\ reported' = Append(reported, hist_replace(hist).sent)
            /\ channel' = channel_send(channel, hist_replace(hist).sent)
            /\ hist' = hist_replace(hist).hist
            /\ timer' = TRUE
            /\ UNCHANGED <<bench_connection, entries_written, bench_status,
                           clock, wire, delivered, received, printed,
                           reporter_up>>
       ELSE /\ bench_status' = "panic_send"
            /\ Gone
    /\ UNCHANGED <<bench_params, server_vars, decode_vars>>

\* One iteration of the loop of reporter: recv.into_iter() yields the
\* oldest histogram of the channel and a line is printed for it.
reporter_next ==
    /\ bench_status = "running"
    /\ reporter_up
    /\ channel # <<>>
    /\ printed' = Append(printed, [hist |-> Head(channel),
                                   line |-> report_line(Head(channel))])
    /\ channel' = Tail(channel)
    /\ UNCHANGED <<bench_connection, entries_written, hist, bench_status,
                   clock, bench_params, wire, delivered, received, reported,
                   reporter_up, timer>>
    /\ UNCHANGED <<server_vars, decode_vars>>

\* println! of the reporter panics (its standard output is closed): the
\* thread ends and drops the Receiver with what the channel holds.
reporter_panic ==
    /\ bench_status = "running"
    /\ reporter_up
    /\ reporter_up' = FALSE
    /\ channel' = <<>>
    /\ UNCHANGED <<bench_connection, entries_written, hist, bench_status,
                   clock, bench_params, wire, delivered, received, reported,
                   printed, timer>>
    /\ UNCHANGED <<server_vars, decode_vars>>

\* The server answers the PUT lines it has received: k more bytes of its
\* responses reach the benchmark's socket.
PeerRespond(k) ==
    /\ bench_status = "running"
    /\ delivered + k <= 3 * Cardinality({i \in 1..Len(wire) : wire[i] = NL})
    /\ delivered' = delivered + k
    /\ UNCHANGED <<bench_connection, entries_written, hist, bench_status,
                   clock, bench_params, wire, received, reported, channel,
                   printed, reporter_up, timer>>
    /\ UNCHANGED <<server_vars, decode_vars>>

BenchStart ==
    /\ bench_connection = BenchConnection_new
    /\ entries_written = 0
    /\ hist = create_hist
    /\ bench_status = "running"
    /\ clock = 0
    /\ wire = <<>>
    /\ delivered = 0
    /\ received = 0
    /\ reported = <<>>
    /\ channel = <<>>
    /\ printed = <<>>
    /\ reporter_up = TRUE
    /\ timer = TRUE

BenchInit ==
    /\ BenchStart
    /\ bench_params \in {[batch_size |-> b, overflow_checks |-> c,
                            reports |-> MaxReports] :
                           b \in BatchSizes, c \in BOOLEAN}

BenchIdle ==
    /\ BenchStart
    /\ bench_params = [batch_size |-> 1, overflow_checks |-> TRUE,
                       reports |-> MaxReports]

\* ------------------------------------------------ the protocol, as specified

\* The number of line terminators in s.
CountNL(s) == Cardinality({i \in 1..Len(s) : s[i] = NL})

\* The lines of s, which is empty or ends with a line terminator.
RECURSIVE LinesOf(_)
LinesOf(s) ==
    IF s = <<>> THEN <<>>
    ELSE LET n == CHOOSE i \in 1..Len(s) :
                    s[i] = NL /\ \A j \in 1..(i - 1) : s[j] # NL
         IN  <<SubSeq(s, 1, n - 1)>> \o LinesOf(SubSeq(s, n + 1, Len(s)))

\* The value the protocol prescribes for a GET of k: that of the most
\* recently handled PUT for k, NONE when there is none.
LastValue(lp, k) == IF k \in DOMAIN lp THEN lp[k].value ELSE B_NONE

\* The responses the protocol prescribes for msgs, handled in order when the
\* most recent PUTs are lp.
RECURSIVE RefResponses(_, _)
RefResponses(msgs, lp) ==
    IF msgs = <<>> THEN <<>>
    ELSE LET m == Head(msgs)
         IN  IF m.type = "Get"
             THEN <<LastValue(lp, m.key)>> \o RefResponses(Tail(msgs), lp)
             ELSE IF m.type = "Put"
             THEN <<B_OK>> \o
                  RefResponses(Tail(msgs),
                               [k \in DOMAIN lp \cup {m.key} |->
                                  IF k = m.key THEN m ELSE lp[k]])
             ELSE <<B_ERR>> \o RefResponses(Tail(msgs), lp)

\* The bytes of the responses resps, each followed by its terminator.
RECURSIVE Wire(_)
Wire(resps) ==
    IF resps = <<>> THEN <<>>
    ELSE (Head(resps) \o <<NL>>) \o Wire(Tail(resps))

\* The whole lines a read of the connection token can deliver next.
NextLines(token) == LinePrefixes(pending[token]) \ { <<>> }

\* data is made of lines of the set L only.
AllLinesIn(data, L) == \A i \in 1..Len(LinesOf(data)) : LinesOf(data)[i] \in L

\* ------------------------------------------------------------------ claims

\* C1: last write wins.  The store holds, for every key, the value of the
\* most recently handled PUT for the key, whichever connection sent it, and
\* nothing for a key never PUT; and on every connection, well-formed
\* requests that arrive next are decoded as sent and answered, in order, by
\* OK for a PUT and, for a GET, by that value or NONE (a PUT of the same
\* read being visible to the GETs after it).
C1_LastWriteWins ==
    /\ \A k \in Keys : db_get(db, k) = LastValue(last_put, k)
    /\ DOMAIN db = DOMAIN last_put
    /\ \A token \in DOMAIN connections :
         \A data \in NextLines(token) :
           (/\ connections[token].read_buf = <<>>
            /\ AllLinesIn(data, {Encode(q) : q \in Requests}))
           => LET lines == LinesOf(data)
                  reqs == [i \in 1..Len(lines) |->
                             CHOOSE q \in Requests : Encode(q) = lines[i]]
                  r == Server_connection_readable(connections[token], db,
                                                  data, "wouldblock")
              IN  /\ r.ok
                  /\ [i \in 1..Len(r.trace) |-> r.trace[i].msg] = reqs
                  /\ r.conn.write_buf =
                       connections[token].write_buf
                         \o Wire(RefResponses(reqs, last_put))
                  /\ \A k \in Keys :
                       db_get(r.db, k) = LastValue(NotePuts(last_put, r.trace), k)

\* C1 witness: connection 1 has PUT a x and got OK, and connection 2 has then
\* read the value x with its GET a.
C1_Witness ==
    /\ DOMAIN connections = {1, 2}
    /\ frames[1] = <<MsgPut(<<"a">>, <<"x">>)>>
    /\ queued[1] = B_OK \o <<NL>>
    /\ frames[2] = <<MsgGet(<<"a">>)>>
    /\ queued[2] = <<"x", NL>>

\* C2: the messages decoded on a connection, whatever the pieces its bytes
\* arrived in, are those a single read of all the bytes decodes.
C2_SplitEqualsWhole ==
    \A token \in DOMAIN connections :
        frames[token] =
            Connection_readable(Connection_new, recvd[token],
                                "wouldblock").messages

\* C3: on every connection, the bytes the socket has accepted so far
\* followed by the bytes still in the write buffer are exactly the bytes of
\* the responses queued, in order: no byte is written twice or dropped.
C3_WriteConservation ==
    \A token \in DOMAIN connections :
        sent[token] \o connections[token].write_buf = queued[token]

\* C3 witness: of 12 bytes queued the socket has accepted 5, the last 7 are
\* buffered and the connection is still armed for writing.
C3_Witness ==
    \E token \in DOMAIN connections :
        /\ queued[token] = Wire(<<B_ERR, B_ERR, B_ERR>>)
        /\ Len(queued[token]) = 12
        /\ Len(sent[token]) = 5
        /\ connections[token].write_buf = SubSeq(queued[token], 6, 12)
        /\ Len(connections[token].write_buf) = 7
        /\ "writable" \in registered[token]

\* C4: every line that arrived has been decoded to one message and answered
\* by one response line; the lines that arrive next are answered, in the
\* order they arrived, by the responses the protocol prescribes for the
\* messages they decode to, appended after what is already queued.
C4_OneResponsePerLine ==
    \A token \in DOMAIN connections :
        /\ Len(frames[token]) = CountNL(recvd[token])
        /\ CountNL(queued[token]) = Len(frames[token])
        /\ \A data \in NextLines(token) :
             LET msgs == Connection_readable(connections[token], data,
                                             "wouldblock").messages
                 r == Server_connection_readable(connections[token], db,
                                                 data, "wouldblock")
             IN  /\ Len(msgs) = CountNL(data)
                 /\ r.conn.write_buf =
                      connections[token].write_buf
                        \o Wire(RefResponses(msgs, last_put))

\* C4 witness: three lines arrived and their three responses are queued in
\* the order of the lines, none of them written yet.
C4_Witness ==
    \E token \in DOMAIN connections :
        /\ frames[token] =
             <<MsgGet(<<"a">>), MsgPut(<<"a">>, <<"x">>), MsgGet(<<"a">>)>>
        /\ queued[token] = (B_NONE \o <<NL>>) \o (B_OK \o <<NL>>) \o <<"x", NL>>
        /\ connections[token].write_buf = queued[token]

Removed == DOMAIN connections \ DOMAIN connections'

\* A step leaves every connection other than token as it is: its buffers,
\* its interest set, what it is armed with and what its peer has sent.
OthersKept(token) ==
    \A u \in DOMAIN connections \ {token} :
        /\ u \in DOMAIN connections'
        /\ connections'[u] = connections[u]
        /\ registered'[u] = registered[u]
        /\ pending'[u] = pending[u]

\* C10: a step that removes a connection leaves every other connection as
\* it is, and changes the store only by the PUTs the same event handled
\* before the fault.
C10_FaultContained ==
    [][\A token \in Removed :
          /\ OthersKept(token)
          /\ (last_put' = last_put) => (db' = db)
          /\ \A k \in Keys : db_get(db', k) = LastValue(last_put', k)]_vars

\* C10 as stated: a step that removes a connection leaves every other
\* connection and the store as they are.
C10_StoreUntouched ==
    [][\A token \in Removed : OthersKept(token) /\ db' = db]_vars

\* C10 witness: connection 1, which has PUT a x after the GET a of
\* connection 2, is removed; connection 2 is there with the response to its
\* GET still in its write buffer, armed for writing.
C10_Witness ==
    /\ scenario.slots = {1, 2}
    /\ DOMAIN connections = {2}
    /\ frames[2] = <<MsgGet(<<"a">>)>>
    /\ connections[2].write_buf = B_NONE \o <<NL>>
    /\ registered[2] = {"readable", "hup", "error", "writable"}
    /\ db_get(db, <<"a">>) = <<"x">>

\* C6: for every line of tokens of the alphabet, however the tokens are
\* spaced, the decoder returns Get(key) exactly when there are 2 tokens and
\* the first is GET, Put(key, value) exactly when there are 3 tokens and the
\* first is PUT, and Error in every other case.
C6_DecodeTable ==
    message # MsgPending =>
        LET n == Len(line_words)
        IN  /\ message.type \in {"Get", "Put", "Error"}
            /\ (message.type = "Get") <=> (n = 2 /\ line_words[1] = B_GET)
            /\ (message.type = "Put") <=> (n = 3 /\ line_words[1] = B_PUT)
            /\ (message.type = "Get") => message = MsgGet(line_words[2])
            /\ (message.type = "Put")
                 => message = MsgPut(line_words[2], line_words[3])
            /\ (message.type = "Error") => message = MsgError

\* C6 witness: the line of the tokens PUT, a, GET, two spaces apart and with
\* a space before and after, is decoded to Put(a, GET).
C6_Witness ==
    /\ line_words = <<B_PUT, <<"a">>, B_GET>>
    /\ line_gaps.sep = <<SP, SP>>
    /\ message = MsgPut(<<"a">>, B_GET)

\* Every value the histograms have been incremented with.
RECURSIVE Concat(_)
Concat(seqs) == IF seqs = <<>> THEN <<>> ELSE Head(seqs) \o Concat(Tail(seqs))

Increments == Concat(reported) \o hist

\* C7: an event that reads k responses, with at least k timestamps in the
\* queue, matches them with the k oldest timestamps and removes exactly
\* those from the queue.
C7_FifoMatching ==
    [][LET k == (received' - received) \div 3
           old == bench_connection.send_times
       IN  (bench_status' = "running" /\ k > 0 /\ k <= Len(old))
           => /\ Len(hist') = Len(hist) + k
              /\ {(clock + 1) - hist'[i] : i \in (Len(hist) + 1)..Len(hist')}
                   = {old[i] : i \in 1..k}
              /\ SubSeq(bench_connection'.send_times, 1, Len(old) - k)
                   = SubSeq(old, k + 1, Len(old))]_vars

\* C8: while the benchmark runs, the timestamp queue is as long as the
\* number of messages fully transmitted minus the number of responses
\* matched.
C8_QueueLength ==
    bench_status = "running"
    => Len(bench_connection.send_times) = CountNL(wire) - (received \div 3)

\* C9: once the N messages transmitted have all been acknowledged, the
\* histograms have been incremented N times in all, with values that are
\* not negative.
C9_ExactlyNIncrements ==
    (bench_status = "running" /\ received = 3 * CountNL(wire))
    => /\ Len(Increments) = CountNL(wire)
       /\ \A i \in 1..Len(Increments) : Increments[i] >= 0

\* C14: on every connection, a read that finds no new byte and a flush of
\* an empty write buffer succeed and leave both buffers as they are, the
\* event that only does such a read keeps the connection and the store, and
\* a flush after a full flush changes nothing.
C14_IdempotentDrain ==
    \A token \in DOMAIN connections :
        LET c == connections[token]
            rd == Connection_readable(c, <<>>, "wouldblock")
            ev == Server_ready(c, db, {"readable"}, <<>>, "wouldblock", 0,
                               "done", TRUE)
            f1 == Connection_writable(c, Len(c.write_buf), "done")
        IN  /\ rd.ok
            /\ rd.messages = <<>>
            /\ rd.conn.read_buf = c.read_buf
            /\ rd.conn.write_buf = c.write_buf
            /\ ev.alive
            /\ ev.conn = c
            /\ ev.db = db
            /\ f1.ok
            /\ f1.conn.read_buf = c.read_buf
            /\ \A res \in {"done", "wouldblock", "zero", "err"} :
                   LET f2 == Connection_writable(f1.conn, 0, res)
                       wr == Connection_writable(c, 0, res)
                   IN  /\ f2.ok
                       /\ f2.conn = f1.conn
                       /\ c.write_buf = <<>>
                            => /\ wr.ok
                               /\ wr.conn.read_buf = c.read_buf
                               /\ wr.conn.write_buf = <<>>

\* C14 witness: a connection whose responses were all flushed and whose
\* peer has nothing more in flight: its next read finds no byte and its next
\* flush an empty buffer.
C14_Witness ==
    \E token \in DOMAIN connections :
        /\ queued[token] # <<>>
        /\ sent[token] = queued[token]
        /\ connections[token].write_buf = <<>>
        /\ pending[token] = <<>>
        /\ registered[token] = connections[token].events

\* A step that dispatched a readiness event for the token of a connection:
\* it removed the connection, or changed it, its registration, or the bytes
\* waiting in its socket without the peer sending.
Dispatched(token) ==
    /\ token \in DOMAIN connections
    /\ \/ token \notin DOMAIN connections'
       \/ connections'[token] # connections[token]
       \/ registered'[token] # registered[token]
       \/ pending'[token] # pending[token] /\ nlines' = nlines

\* C15: after a readiness event was dispatched for a connection, the
\* connection is removed from the table and from the event loop, or it is in
\* the table and armed with exactly the interest set it holds then, which is
\* not empty.
C15_RearmedOrRemoved ==
    [][\A token \in DOMAIN connections :
          Dispatched(token)
          => \/ /\ token \notin DOMAIN connections'
                /\ token \notin DOMAIN registered'
             \/ /\ token \in DOMAIN connections'
                /\ token \in DOMAIN registered'
                /\ registered'[token] = connections'[token].events
                /\ registered'[token] # {}]_vars

\* C15 witness: a connection that was re-armed for writing too, with a
\* response partly flushed.
C15_Witness ==
    \E token \in DOMAIN connections :
        /\ sent[token] # <<>>
        /\ connections[token].write_buf # <<>>
        /\ connections[token].events =
             {"readable", "hup", "error", "writable"}
        /\ registered[token] = connections[token].events

\* C16: between two events, a connection is interested in writable exactly
\* when its write buffer is not empty, and always in readable, error and
\* hangup.
C16_InterestInvariant ==
    \A token \in DOMAIN connections :
        LET c == connections[token]
        IN  /\ ("writable" \in c.events) <=> (c.write_buf # <<>>)
            /\ {"readable", "error", "hup"} \subseteq c.events
            /\ c.events \subseteq {"readable", "error", "hup", "writable"}

\* C16 witness: a connection that answered, flushed everything and lost its
\* interest in writable again.
C16_Witness ==
    \E token \in DOMAIN connections :
        /\ frames[token] # <<>>
        /\ sent[token] = queued[token]
        /\ connections[token].write_buf = <<>>
        /\ connections[token].events = {"readable", "hup", "error"}

\* C17: once the peer has closed its sending side and all it sent was read,
\* the readable event whose read returns a zero-length result removes the
\* connection.
C17_ZeroReadRemoves ==
    \A token \in DOMAIN connections :
        (closed[token] /\ pending[token] = <<>>
           /\ "readable" \in registered[token])
        => ~Server_ready(connections[token], db, {"readable"}, <<>>, "eof",
                         0, "done", TRUE).alive

\* The tokens the scenarios use.
Slots == {1, 2}

\* The bytes of s after its last line terminator.
AfterLastNL(s) ==
    LET at == {i \in 1..Len(s) : s[i] = NL}
        last == IF at = {} THEN 0
                ELSE CHOOSE i \in at : \A j \in at : j <= i
    IN  SubSeq(s, last + 1, Len(s))

\* C18: between two events, the read buffer of a connection holds exactly
\* the bytes received after the last line terminator received, hence no
\* terminator, and one message was decoded for each terminated line.
C18_ReadBufferIsTail ==
    \A token \in DOMAIN connections :
        /\ connections[token].read_buf = AfterLastNL(recvd[token])
        /\ \A i \in 1..Len(connections[token].read_buf) :
               connections[token].read_buf[i] # NL
        /\ Len(frames[token]) = CountNL(recvd[token])

\* C19: an event with error or hangup set removes the connection and does
\* nothing else, whatever bytes wait in the socket and in the write buffer
\* and whatever other flags are set: nothing is read, decoded, stored,
\* queued or written.  An event with readable and writable and neither of
\* these reads first: what the read queues is offered to the socket by the
\* write of the same event.
C19_ErrorHangupFirst ==
    \A token \in DOMAIN connections :
      \A events \in (SUBSET {"readable", "writable", "error", "hup"}) \ {{}} :
        LET c == connections[token]
            data == pending[token]
            r == ready_read(c, db, events, data, "wouldblock")
            out == Server_ready(c, db, events, data, "wouldblock",
                                Len(r.conn.write_buf), "done", TRUE)
        IN  /\ events \cap {"error", "hup"} # {}
                 => /\ ~out.alive
                    /\ out.conn = c
                    /\ out.db = db
                    /\ out.trace = <<>>
                    /\ out.queued = <<>>
                    /\ out.accepted = <<>>
            /\ events = {"readable", "writable"}
                 => /\ out.alive
                    /\ Len(out.trace) = CountNL(data)
                    /\ out.accepted = c.write_buf \o out.queued
                    /\ out.conn.write_buf = <<>>

\* C19 witness: a connection armed for reading and writing, with a response
\* in its write buffer and a PUT line of its peer waiting in the socket: an
\* event for it has something to read, to store and to write.
C19_Witness ==
    \E token \in DOMAIN connections :
        /\ registered[token] = {"readable", "hup", "error", "writable"}
        /\ connections[token].write_buf = B_NONE \o <<NL>>
        /\ pending[token] = Encode(MsgPut(<<"a">>, <<"x">>)) \o <<NL>>
        /\ db = EmptyMap

\* C20: under fair delivery of writable events to a peer that accepts
\* bytes, a connection with bytes in its write buffer comes to a point where
\* all of them were written, or is removed.
C20_FlushLiveness ==
    \A token \in Slots :
        (token \in DOMAIN connections
           /\ connections[token].write_buf # <<>>)
        ~> (token \notin DOMAIN connections
              \/ connections[token].write_buf = <<>>)

\* C20 witness: on a socket that takes the responses in pieces, a response
\* was queued and written to the last byte.
C20_Witness ==
    \E token \in DOMAIN connections :
        /\ scenario.write_cut = "byte"
        /\ Len(frames[token]) >= 1
        /\ queued[token] # <<>>
        /\ sent[token] = queued[token]
        /\ connections[token].write_buf = <<>>
        /\ "writable" \notin registered[token]

\* C11: response bytes that are not a whole number of "OK\n" never abort the
\* benchmark process: the process keeps running whatever bytes a read finds
\* in the read buffer.
C11_MalformedAckContained == bench_status # "panic_assert"

\* C12: the benchmark exits successfully only once more than Count PUT
\* messages have been sent over the connection.
C12_ExitAfterCountSent ==
    [][bench_status' = "exited" => CountNL(wire) > Count]_vars

\* s is a prefix of t.
IsPrefix(s, t) == Len(s) <= Len(t) /\ SubSeq(t, 1, Len(s)) = s

\* C13: every sample recorded is in exactly one histogram, a shipped one or
\* the live one: a step of the running benchmark only adds samples to the
\* live histogram, a hand-off moves the samples of the live histogram into
\* the shipped ones without losing or repeating one, and a shipped
\* histogram never changes.
C13_HandOffMovesSamples ==
    [][bench_status' = "running"
       => /\ IsPrefix(reported, reported')
          /\ IsPrefix(Increments, Increments')
          /\ reported' # reported
               => /\ Increments' = Increments
                  /\ hist' = <<>>]_vars

\* C13 witness: one sample was shipped with a histogram and a later one is
\* in the live histogram.
C13_Witness ==
    /\ bench_status = "running"
    /\ Len(reported) = 1
    /\ reported[1] # <<>>
    /\ hist # <<>>

\* The histograms the reporter has taken from the channel, in order.
Taken == [i \in 1..Len(printed) |-> printed[i].hist]

\* C21: while the benchmark and its reporter run, the hand-off of a report
\* timeout can be taken whatever the channel holds, the timeout is armed,
\* and the histograms the reporter has taken followed by those still in the
\* channel are the histograms shipped, in the order shipped, with one line
\* printed for each one taken.
C21_ReportPipeline ==
    (bench_status = "running" /\ reporter_up)
    => /\ timer
       /\ Len(reported) < bench_params.reports => ENABLED Bench_timeout
       /\ Taken \o channel = reported
       /\ \A i \in 1..Len(printed) :
              printed[i].line = report_line(reported[i])

\* C21 witness: two different histograms were shipped; the reporter has
\* taken the first, which holds a sample, and printed its line, and the
\* second is in the channel.
C21_Witness ==
    /\ bench_status = "running"
    /\ reporter_up
    /\ Len(reported) = 2
    /\ Len(printed) = 1
    /\ printed[1].hist = reported[1]
    /\ printed[1].line.count = 1
    /\ channel = <<reported[2]>>
    /\ reported[2] # reported[1]

\* ---------------------------------------------------------- specifications

\* The server and its peers.
Init == ServerInit /\ DecodeIdle /\ BenchIdle

Next ==
    \/ \E new \in SUBSET Tokens, failed \in SUBSET Tokens :
           Server_accept_connections(new, failed)
    \/ \E token \in Tokens, line \in scenario.lines : ClientSend(token, line)
    \/ \E token \in Tokens : ClientClose(token)
    \/ \E token \in DOMAIN connections :
         \E events \in EventSets(token) :
           \E rd \in ReadInputs(token, events) :
             LET r == ready_read(connections[token], db, events, rd[1], rd[2])
             IN  \E wr \in WriteInputs(events, rd[2], r.conn.write_buf) :
                   \E regok \in RegInputs(events, rd[2], wr[1], wr[2]) :
                     ServerReadyFrom(token, events, rd[1], r, wr[1], wr[2],
                                     regok)

Spec == Init /\ [][Next]_vars

\* A writable event for the connection token whose socket accepts at least
\* one byte of the write buffer.
Flush(token) ==
    /\ token \in DOMAIN connections
    /\ "writable" \in registered[token]
    /\ \E wr \in WriteInputs({"writable"}, "wouldblock",
                              connections[token].write_buf) :
          /\ wr[1] >= 1
          /\ ServerReadyFrom(token, {"writable"}, <<>>,
                             ready_read(connections[token], db, {"writable"},
                                        <<>>, "wouldblock"),
                             wr[1], wr[2], TRUE)

\* The server with an event loop that delivers the writable events it is
\* armed for, and peers that keep taking bytes: the runs with two
\* connections and those whose sockets take the responses byte by byte, of
\* at most MaxPairLines request lines.
InitLive ==
    /\ Init
    /\ scenario.slots = Slots \/ scenario.write_cut = "byte"
    /\ scenario.budget <= MaxPairLines

SpecLive == InitLive /\ [][Next]_vars /\ \A token \in Slots : WF_vars(Flush(token))

\* Message::from_bytes on the lines of the token alphabet.
InitDecode == ServerIdle /\ DecodeInit /\ BenchIdle

NextDecode == DecodeLine

SpecDecode == InitDecode /\ [][NextDecode]_vars

\* The benchmark and the server it drives.
InitBench == ServerIdle /\ DecodeIdle /\ BenchInit

NextBench ==
    \/ \E events \in BenchEventSets :
         \E rres \in BenchReadResults(events) :
           \E wr \in BenchWriteInputs(events, rres) :
             \E regok \in BOOLEAN :
               BenchReady(events, rres, wr[1], wr[2], regok)
    \/ Bench_timeout
    \/ \E k \in 1..3 : PeerRespond(k)

SpecBench == InitBench /\ [][NextBench]_vars

\* The benchmark with its reporter thread, in the build that checks
\* overflow, over one report timeout more.
InitReport ==
    /\ ServerIdle
    /\ DecodeIdle
    /\ BenchStart
    /\ bench_params = [batch_size |-> 1, overflow_checks |-> TRUE,
                       reports |-> MaxReports + 1]

NextReport ==
    \/ NextBench
    \/ reporter_next
    \/ reporter_panic

SpecReport == InitReport /\ [][NextReport]_vars
====
